---- MODULE Spec2Model ----
(***************************************************************************)
(* Model of rmenu-ng's desktop-entry engine (src/src/desktop_entry.rs):    *)
(* the semicolon-list codec, the boolean codec, the locale-key folder, the *)
(* entry / action section binders with their serializers, the sections of  *)
(* a file; and of the menu front end (src/src/gui.rs).                     *)
(*                                                                         *)
(* Text is modelled by TLA+ strings, read character by character with Len, *)
(* SubSeq and \o.  A BTreeMap<String, String> is a function whose DOMAIN    *)
(* is its key set; it is iterated in ascending byte order of the keys.     *)
(***************************************************************************)
EXTENDS Integers, Sequences, FiniteSets, TLC

VARIABLES pc, arg, res, res2, res3,
          \* the fields of RMenuApp (src/src/gui.rs)
          input_text, selected_index, options,
          \* the input text as it was at the last click on Search, if any
          searched_text

app_vars == <<input_text, selected_index, options, searched_text>>
vars == <<pc, arg, res, res2, res3, app_vars>>

(***************************************************************************)
(* Bounds of the explored inputs.                                          *)
(***************************************************************************)
\* longest text handed to the list decoder
MaxLen == 5
\* longest typed list handed to the list encoder
MaxItems == 2
\* longest element of such a typed list
MaxElemLen == 1
\* most keys in one section body
MaxKeys == 3

(***************************************************************************)
(* Option and Result values.                                               *)
(***************************************************************************)
None == [some |-> FALSE]
Some(x) == [some |-> TRUE, v |-> x]
Ok(x) == [ok |-> TRUE, v |-> x]
Err(e) == [ok |-> FALSE, e |-> e]

\* serde::de::Error::custom(msg)
custom(msg) == [kind |-> "custom", msg |-> msg]
\* serde::de::Error::missing_field(field)
missing_field(field) == [kind |-> "missing_field", field |-> field]
\* Display of a serde error, as map_err(de::Error::custom) sees it (serde puts
\* the field name between backquotes, which a TLA+ string cannot hold: ' here)
display(e) == IF e.kind = "custom" THEN e.msg ELSE "missing field '" \o e.field \o "'"

(***************************************************************************)
(* str primitives.                                                         *)
(***************************************************************************)
\* the characters of the modelled texts, in ascending byte order
Ascii == " \"'-/01;=ABCDEFGHIJKLMNOPQRSTUVWXYZ[\\]_abcdefghijklmnopqrstuvwxyz"
UpperCase == "ABCDEFGHIJKLMNOPQRSTUVWXYZ"
LowerCase == "abcdefghijklmnopqrstuvwxyz"

char_at(s, i) == SubSeq(s, i, i)
Ord(c) == CHOOSE i \in 1..Len(Ascii) : char_at(Ascii, i) = c

starts_with(s, p) == Len(s) >= Len(p) /\ SubSeq(s, 1, Len(p)) = p
ends_with(s, p) == Len(s) >= Len(p) /\ SubSeq(s, Len(s) - Len(p) + 1, Len(s)) = p

\* str::find(c): 1-based position of the first occurrence, 0 when there is none
find(s, c) ==
    IF \E i \in 1..Len(s) : char_at(s, i) = c
    THEN CHOOSE i \in 1..Len(s) :
            /\ char_at(s, i) = c
            /\ \A j \in 1..(i - 1) : char_at(s, j) # c
    ELSE 0

lower_char(c) ==
    IF \E i \in 1..Len(UpperCase) : char_at(UpperCase, i) = c
    THEN char_at(LowerCase, CHOOSE i \in 1..Len(UpperCase) : char_at(UpperCase, i) = c)
    ELSE c

upper_char(c) ==
    IF \E i \in 1..Len(LowerCase) : char_at(LowerCase, i) = c
    THEN char_at(UpperCase, CHOOSE i \in 1..Len(LowerCase) : char_at(LowerCase, i) = c)
    ELSE c

RECURSIVE to_lowercase(_)
to_lowercase(s) ==
    IF s = "" THEN ""
    ELSE lower_char(char_at(s, 1)) \o to_lowercase(SubSeq(s, 2, Len(s)))

\* str::split(sep) for a one-character separator: every fragment, empty ones too
RECURSIVE split(_, _)
split(s, sep) ==
    LET i == find(s, sep) IN
    IF i = 0 THEN <<s>>
    ELSE <<SubSeq(s, 1, i - 1)>> \o split(SubSeq(s, i + 1, Len(s)), sep)

\* [String]::join(sep)
RECURSIVE join(_, _)
join(items, sep) ==
    IF Len(items) = 0 THEN ""
    ELSE IF Len(items) = 1 THEN items[1]
    ELSE items[1] \o sep \o join(Tail(items), sep)

\* Ord for String: byte-wise lexicographic order
RECURSIVE str_lt(_, _)
str_lt(s, t) ==
    IF t = "" THEN FALSE
    ELSE IF s = "" THEN TRUE
    ELSE IF char_at(s, 1) = char_at(t, 1)
         THEN str_lt(SubSeq(s, 2, Len(s)), SubSeq(t, 2, Len(t)))
         ELSE Ord(char_at(s, 1)) < Ord(char_at(t, 1))

\* BTreeMap::keys(): the keys in ascending order
RECURSIVE sorted(_)
sorted(S) ==
    IF S = {} THEN <<>>
    ELSE LET m == CHOOSE x \in S : \A y \in S \ {x} : str_lt(x, y)
         IN <<m>> \o sorted(S \ {m})

(***************************************************************************)
(* BTreeMap<String, String>.                                               *)
(***************************************************************************)
EmptyMap == <<>>
insert(m, k, v) == [x \in DOMAIN m \cup {k} |-> IF x = k THEN v ELSE m[x]]
remove(m, k) == [x \in DOMAIN m \ {k} |-> m[x]]
get(m, k) == IF k \in DOMAIN m THEN Some(m[k]) ELSE None

(***************************************************************************)
(* SemicolonList codec.                                                    *)
(***************************************************************************)
RECURSIVE filter_non_empty(_)
filter_non_empty(parts) ==
    IF Len(parts) = 0 THEN <<>>
    ELSE IF Head(parts) = "" THEN filter_non_empty(Tail(parts))
    ELSE <<Head(parts)>> \o filter_non_empty(Tail(parts))

\* a decoder that forgets the filter_map and keeps the empty fragments
SemicolonList_deserialize_unfiltered(s) == Ok(split(s, ";"))

\* impl Deserialize for SemicolonList
SemicolonList_deserialize(s) == Ok(filter_non_empty(split(s, ";")))

\* an encoder that forgets the trailing delimiter
SemicolonList_serialize_joined(list) == join(list, ";")

\* impl Serialize for SemicolonList (the text handed to serialize_str)
SemicolonList_serialize(list) ==
    IF Len(list) = 0 THEN ""
    ELSE LET joined == join(list, ";") IN
         IF ~ends_with(joined, ";") THEN joined \o ";" ELSE joined

deserialize_opt_semicolon_list(opt) ==
    IF opt.some
    THEN LET r == SemicolonList_deserialize(opt.v) IN
         IF r.ok THEN Ok(Some(r.v)) ELSE Err(custom(display(r.e)))
    ELSE Ok(None)

(***************************************************************************)
(* Boolean codec.                                                          *)
(***************************************************************************)
\* a decoder that reads every unrecognised text as false
deserialize_opt_bool_lenient(opt) ==
    IF opt.some
    THEN IF to_lowercase(opt.v) \in {"true", "1"} THEN Ok(Some(TRUE)) ELSE Ok(Some(FALSE))
    ELSE Ok(None)

deserialize_opt_bool(opt) ==
    IF opt.some
    THEN LET s_lower == to_lowercase(opt.v) IN
         IF s_lower \in {"true", "1"} THEN Ok(Some(TRUE))
         ELSE IF s_lower \in {"false", "0"} THEN Ok(Some(FALSE))
         ELSE Err(custom("Invalid boolean string: " \o s_lower))
    ELSE Ok(None)

\* bool::to_string, as used by serialize_desktop_entry
bool_to_string(b) == IF b THEN "true" ELSE "false"

(***************************************************************************)
(* Locale-key folder.                                                      *)
(***************************************************************************)
\* the test of the first loop of deserialize_localized
matches_prefix(key, prefix) ==
    \/ key = prefix
    \/ starts_with(key, prefix \o "[") /\ ends_with(key, "]")

RECURSIVE filter_matching(_, _)
filter_matching(keys, prefix) ==
    IF Len(keys) = 0 THEN <<>>
    ELSE IF matches_prefix(Head(keys), prefix)
         THEN <<Head(keys)>> \o filter_matching(Tail(keys), prefix)
         ELSE filter_matching(Tail(keys), prefix)

\* the second loop of deserialize_localized: move each key into loc_map
RECURSIVE move_localized(_, _, _, _)
move_localized(to_remove, prefix, map, loc_map) ==
    IF Len(to_remove) = 0 THEN [loc_map |-> loc_map, map |-> map]
    ELSE LET full_key == Head(to_remove)
             value == map[full_key]
             start == find(full_key, "[")
             locale == IF full_key = prefix THEN ""
                       ELSE SubSeq(full_key, start + 1, Len(full_key) - 1)
         IN move_localized(Tail(to_remove), prefix, remove(map, full_key),
                           insert(loc_map, locale, value))

\* (a folder that copies the matching keys and leaves them in the map, for
\* comparison)
deserialize_localized_copying(prefix, map) ==
    LET to_remove == filter_matching(sorted(DOMAIN map), prefix) IN
    IF Len(to_remove) = 0 THEN [ret |-> None, map |-> map]
    ELSE LET r == move_localized(to_remove, prefix, map, EmptyMap)
         IN [ret |-> Some(r.loc_map), map |-> map]
\* deserialize_localized(prefix, &mut map): the returned Option<LocaleMap>
\* together with the map as the call leaves it
deserialize_localized(prefix, map) ==
    LET to_remove == filter_matching(sorted(DOMAIN map), prefix) IN
    IF Len(to_remove) = 0 THEN [ret |-> None, map |-> map]
    ELSE LET r == move_localized(to_remove, prefix, map, EmptyMap)
         IN [ret |-> Some(r.loc_map), map |-> r.map]

\* the loop that unfolds one LocaleMap in serialize_desktop_entry / _action
RECURSIVE insert_localized(_, _, _, _)
insert_localized(map, prefix, loc_map, locales) ==
    IF Len(locales) = 0 THEN map
    ELSE LET locale == Head(locales)
             key == IF locale = "" THEN prefix ELSE prefix \o "[" \o locale \o "]"
         IN insert_localized(insert(map, key, loc_map[locale]), prefix, loc_map,
                             Tail(locales))

insert_opt_localized(map, prefix, opt) ==
    IF opt.some THEN insert_localized(map, prefix, opt.v, sorted(DOMAIN opt.v))
    ELSE map

(***************************************************************************)
(* The [Desktop Entry] section.                                            *)
(***************************************************************************)
\* the renamed fields of TempEntry, by codec
BoolKeys == {"NoDisplay", "Hidden", "DBusActivatable", "Terminal", "StartupNotify",
             "PrefersNonDefaultGPU"}
ListKeys == {"OnlyShowIn", "NotShowIn", "Actions", "MimeType", "Categories", "Implements"}
StringKeys == {"Type", "Version", "TryExec", "Exec", "Path", "StartupWMClass", "URL"}
TempEntryKeys == BoolKeys \cup ListKeys \cup StringKeys

\* the last value of a field that goes through deserialize_opt_bool
opt_bool_field(raw_map, key) == deserialize_opt_bool(get(raw_map, key)).v
\* (a binder that gives an absent list key an empty list, for comparison)
opt_list_field_default_empty(raw_map, key) ==
    IF key \in DOMAIN raw_map
    THEN deserialize_opt_semicolon_list(get(raw_map, key)).v
    ELSE Some(<<>>)
\* the value of a field that goes through deserialize_opt_semicolon_list
opt_list_field(raw_map, key) == deserialize_opt_semicolon_list(get(raw_map, key)).v

RECURSIVE first_field_error(_, _)
first_field_error(keys, raw_map) ==
    IF Len(keys) = 0 THEN None
    ELSE LET r == IF Head(keys) \in BoolKeys
                  THEN deserialize_opt_bool(Some(raw_map[Head(keys)]))
                  ELSE IF Head(keys) \in ListKeys
                  THEN deserialize_opt_semicolon_list(Some(raw_map[Head(keys)]))
                  ELSE Ok(None)
         IN IF r.ok THEN first_field_error(Tail(keys), raw_map) ELSE Some(r.e)

\* TempEntry::deserialize(raw_map): the map entries are visited in key order,
\* a declared key is decoded by its codec, every other key is collected into
\* the flattened `other`; a missing Type is reported after the last entry
TempEntry_deserialize(raw_map) ==
    LET failed == first_field_error(sorted(DOMAIN raw_map), raw_map) IN
    IF failed.some THEN Err(failed.v)
    ELSE IF "Type" \notin DOMAIN raw_map THEN Err(missing_field("Type"))
    ELSE Ok([entry_type |-> raw_map["Type"],
             version |-> get(raw_map, "Version"),
             no_display |-> opt_bool_field(raw_map, "NoDisplay"),
             hidden |-> opt_bool_field(raw_map, "Hidden"),
             only_show_in |-> opt_list_field(raw_map, "OnlyShowIn"),
             not_show_in |-> opt_list_field(raw_map, "NotShowIn"),
             dbus_activatable |-> opt_bool_field(raw_map, "DBusActivatable"),
             try_exec |-> get(raw_map, "TryExec"),
             exec |-> get(raw_map, "Exec"),
             path |-> get(raw_map, "Path"),
             terminal |-> opt_bool_field(raw_map, "Terminal"),
             actions |-> opt_list_field(raw_map, "Actions"),
             mime_type |-> opt_list_field(raw_map, "MimeType"),
             categories |-> opt_list_field(raw_map, "Categories"),
             implements |-> opt_list_field(raw_map, "Implements"),
             startup_notify |-> opt_bool_field(raw_map, "StartupNotify"),
             startup_wm_class |-> get(raw_map, "StartupWMClass"),
             url |-> get(raw_map, "URL"),
             prefers_non_default_gpu |-> opt_bool_field(raw_map, "PrefersNonDefaultGPU"),
             other |-> [k \in DOMAIN raw_map \ TempEntryKeys |-> raw_map[k]]])

\* deserialize_desktop_entry on the section body
deserialize_desktop_entry(raw_map) ==
    LET name == deserialize_localized("Name", raw_map)
        generic_name == deserialize_localized("GenericName", name.map)
        comment == deserialize_localized("Comment", generic_name.map)
        icon == deserialize_localized("Icon", comment.map)
        keywords == deserialize_localized("Keywords", icon.map)
        temp == TempEntry_deserialize(keywords.map)
    IN
    IF ~name.ret.some THEN Err(missing_field("Name"))
    ELSE IF ~temp.ok THEN Err(custom(display(temp.e)))
    ELSE Ok([entry_type |-> temp.v.entry_type,
             version |-> temp.v.version,
             name |-> name.ret.v,
             generic_name |-> generic_name.ret,
             no_display |-> temp.v.no_display,
             comment |-> comment.ret,
             icon |-> icon.ret,
             hidden |-> temp.v.hidden,
             only_show_in |-> temp.v.only_show_in,
             not_show_in |-> temp.v.not_show_in,
             dbus_activatable |-> temp.v.dbus_activatable,
             try_exec |-> temp.v.try_exec,
             exec |-> temp.v.exec,
             path |-> temp.v.path,
             terminal |-> temp.v.terminal,
             actions |-> temp.v.actions,
             mime_type |-> temp.v.mime_type,
             categories |-> temp.v.categories,
             implements |-> temp.v.implements,
             keywords |-> keywords.ret,
             startup_notify |-> temp.v.startup_notify,
             startup_wm_class |-> temp.v.startup_wm_class,
             url |-> temp.v.url,
             prefers_non_default_gpu |-> temp.v.prefers_non_default_gpu,
             other |-> temp.v.other])

\* serde_json's string escaping of the characters modelled here
RECURSIVE json_escape(_)
json_escape(s) ==
    IF s = "" THEN ""
    ELSE LET c == char_at(s, 1) IN
         (IF c = "\"" THEN "\\\"" ELSE IF c = "\\" THEN "\\\\" ELSE c)
         \o json_escape(SubSeq(s, 2, Len(s)))

\* serde_json::to_string of a SemicolonList: its text as a JSON string
to_json_string(list) == "\"" \o json_escape(SemicolonList_serialize(list)) \o "\""

\* str::trim_matches(c)
RECURSIVE trim_start_matches(_, _)
trim_start_matches(s, c) ==
    IF starts_with(s, c) /\ s # "" THEN trim_start_matches(SubSeq(s, 2, Len(s)), c) ELSE s
RECURSIVE trim_end_matches(_, _)
trim_end_matches(s, c) ==
    IF ends_with(s, c) /\ s # "" THEN trim_end_matches(SubSeq(s, 1, Len(s) - 1), c) ELSE s
trim_matches(s, c) == trim_end_matches(trim_start_matches(s, c), c)

insert_opt(map, key, opt) == IF opt.some THEN insert(map, key, opt.v) ELSE map
insert_opt_bool(map, key, opt) ==
    IF opt.some THEN insert(map, key, bool_to_string(opt.v)) ELSE map
insert_opt_list(map, key, opt) ==
    IF opt.some THEN insert(map, key, trim_matches(to_json_string(opt.v), "\"")) ELSE map

\* the loop `for (k, v) in &other { map.insert(k, v) }`
insert_all(map, other) ==
    [k \in DOMAIN map \cup DOMAIN other |-> IF k \in DOMAIN other THEN other[k] ELSE map[k]]

\* the inserts of serialize_desktop_entry for the declared fields, in order
entry_declared_keys(entry) ==
    LET m01 == insert(EmptyMap, "Type", entry.entry_type)
        m02 == insert_opt(m01, "Version", entry.version)
        m03 == insert_localized(m02, "Name", entry.name, sorted(DOMAIN entry.name))
        m04 == insert_opt_localized(m03, "GenericName", entry.generic_name)
        m05 == insert_opt_bool(m04, "NoDisplay", entry.no_display)
        m06 == insert_opt_localized(m05, "Comment", entry.comment)
        m07 == insert_opt_localized(m06, "Icon", entry.icon)
        m08 == insert_opt_bool(m07, "Hidden", entry.hidden)
        m09 == insert_opt_list(m08, "OnlyShowIn", entry.only_show_in)
        m10 == insert_opt_list(m09, "NotShowIn", entry.not_show_in)
        m11 == insert_opt_bool(m10, "DBusActivatable", entry.dbus_activatable)
        m12 == insert_opt(m11, "TryExec", entry.try_exec)
        m13 == insert_opt(m12, "Exec", entry.exec)
        m14 == insert_opt(m13, "Path", entry.path)
        m15 == insert_opt_bool(m14, "Terminal", entry.terminal)
        m16 == insert_opt_list(m15, "Actions", entry.actions)
        m17 == insert_opt_list(m16, "MimeType", entry.mime_type)
        m18 == insert_opt_list(m17, "Categories", entry.categories)
        m19 == insert_opt_list(m18, "Implements", entry.implements)
        m20 == insert_opt_localized(m19, "Keywords", entry.keywords)
        m21 == insert_opt_bool(m20, "StartupNotify", entry.startup_notify)
        m22 == insert_opt(m21, "StartupWMClass", entry.startup_wm_class)
        m23 == insert_opt(m22, "URL", entry.url)
    IN insert_opt_bool(m23, "PrefersNonDefaultGPU", entry.prefers_non_default_gpu)

\* a serializer that forgets the loop over `other`
serialize_desktop_entry_without_other(entry) ==
    insert(EmptyMap, "Desktop Entry", entry_declared_keys(entry))

\* serialize_desktop_entry: the wrapper map handed to the serializer
serialize_desktop_entry(entry) ==
    insert(EmptyMap, "Desktop Entry", insert_all(entry_declared_keys(entry), entry.other))

\* the key sequence a serializer receives from BTreeMap::serialize: the map's
\* entries in the byte order of their keys, whatever order they were inserted in
emitted_keys(map) == sorted(DOMAIN map)

(***************************************************************************)
(* The [Desktop Action <ID>] sections.                                     *)
(***************************************************************************)
\* a binder that falls back to DesktopAction's default name
deserialize_desktop_action_default_name(raw_map) ==
    IF "__action_id" \notin DOMAIN raw_map THEN Err(custom("Missing action ID"))
    ELSE LET action_id == raw_map["__action_id"]
             name == deserialize_localized("Name", remove(raw_map, "__action_id"))
             icon == deserialize_localized("Icon", name.map)
         IN Ok(<<action_id,
                 [name |-> IF name.ret.some THEN name.ret.v ELSE EmptyMap,
                  icon |-> icon.ret,
                  exec |-> get(icon.map, "Exec"),
                  other |-> remove(icon.map, "Exec")]>>)

\* deserialize_desktop_action on the section body
deserialize_desktop_action(raw_map) ==
    IF "__action_id" \notin DOMAIN raw_map THEN Err(custom("Missing action ID"))
    ELSE LET action_id == raw_map["__action_id"]
             name == deserialize_localized("Name", remove(raw_map, "__action_id"))
             icon == deserialize_localized("Icon", name.map)
         IN IF ~name.ret.some
            THEN Err(missing_field("Desktop Action " \o action_id \o " → Name"))
            ELSE Ok(<<action_id,
                      [name |-> name.ret.v,
                       icon |-> icon.ret,
                       exec |-> get(icon.map, "Exec"),
                       other |-> remove(icon.map, "Exec")]>>)

\* serialize_desktop_action: the wrapper map handed to the serializer
serialize_desktop_action(pair) ==
    LET action_id == pair[1]
        action == pair[2]
        m1 == insert_localized(EmptyMap, "Name", action.name, sorted(DOMAIN action.name))
        m2 == insert_opt_localized(m1, "Icon", action.icon)
        m3 == insert_opt(m2, "Exec", action.exec)
        map == insert_all(m3, action.other)
        section_name == "Desktop Action " \o action_id
    IN insert(EmptyMap, section_name, map)

(***************************************************************************)
(* Explored inputs.                                                        *)
(***************************************************************************)
ListAlphabet == {"a", "b", ";"}

RECURSIVE StrsOfLen(_, _)
StrsOfLen(alphabet, n) ==
    IF n = 0 THEN {""}
    ELSE {s \o c : s \in StrsOfLen(alphabet, n - 1), c \in alphabet}

StrsUpTo(alphabet, n) == UNION {StrsOfLen(alphabet, k) : k \in 0..n}

\* texts handed to the list decoder
ListTexts == StrsUpTo(ListAlphabet, MaxLen)

\* typed lists handed to the list encoder
ListElems == StrsUpTo(ListAlphabet, MaxElemLen)
TypedLists == UNION {[1..n -> ListElems] : n \in 0..MaxItems}

\* texts handed to the boolean decoder: every letter-case variant of each word
BoolWords == {"true", "false", "1", "0", "yes", "no", "on", "", "tru", "truee", "t", "10", "01"}

RECURSIVE with_case(_, _, _)
with_case(w, mask, i) ==
    IF i > Len(w) THEN ""
    ELSE (IF i \in mask THEN upper_char(char_at(w, i)) ELSE char_at(w, i))
         \o with_case(w, mask, i + 1)

BoolTexts == UNION {{with_case(w, mask, 1) : mask \in SUBSET (1..Len(w))} : w \in BoolWords}

\* section bodies handed to the locale-key folder
LocaleKeys == {"Name", "Name[de]", "Name[]", "Name[", "Name[a]b]", "NameX", "Name]",
               "GenericName", "GenericName[de]", "Icon", "name"}
LocaleValue(k) ==
    IF k = "Name" THEN "Foo Viewer"
    ELSE IF k = "Name[de]" THEN "Foo Betrachter"
    ELSE IF k = "Icon" THEN "x"
    ELSE "text of " \o k

LocaleMaps == {[k \in K |-> LocaleValue(k)] : K \in {S \in SUBSET LocaleKeys : Cardinality(S) <= MaxKeys}}
Prefixes == {"Name", "GenericName", "Icon"}

\* keys and texts of the explored [Desktop Entry] bodies
EntryKeys == {"Type", "Version", "Name", "Name[de]", "Name[]", "GenericName", "Comment[de]",
              "Icon", "Keywords", "Exec", "NoDisplay", "Hidden", "DBusActivatable",
              "Terminal", "StartupNotify", "PrefersNonDefaultGPU", "MimeType", "Actions",
              "X-Custom-Field", "type"}
BoolValues == {"true", "False", "0", "Yes"}
ListValues == {"image/x-foo;", "Gallery;;Create"}
EntryValues(k) ==
    IF k \in BoolKeys THEN BoolValues
    ELSE IF k \in ListKeys THEN ListValues
    ELSE IF k = "Type" THEN {"Application"}
    ELSE IF k = "Name" THEN {"Foo Viewer"}
    ELSE IF k = "Name[de]" THEN {"Foo Betrachter"}
    ELSE IF k = "Exec" THEN {"fooview %F"}
    ELSE IF k = "X-Custom-Field" THEN {"value"}
    ELSE {"text of " \o k}

\* all maps over at most MaxKeys keys of texts, each key with one of its texts
Bodies(texts) ==
    UNION {{m \in [K -> UNION {texts[k] : k \in K}] : \A k \in K : m[k] \in texts[k]} :
           K \in {S \in SUBSET DOMAIN texts : Cardinality(S) <= MaxKeys}}

EntryBodies == Bodies([k \in EntryKeys |-> EntryValues(k)])

\* keys and texts of the explored [Desktop Action <ID>] bodies
ActionHeaders == {"Desktop Action Gallery", "Desktop Action Create"}
ActionKeys == {"__action_id", "Name", "Name[de]", "Name[]", "Icon", "Exec", "Terminal",
               "X-Custom-Field"}
ActionValues(k) ==
    IF k = "__action_id" THEN {"Gallery", "Create"}
    ELSE IF k = "Name" THEN {"Browse Gallery"}
    ELSE IF k = "Exec" THEN {"fooview --gallery"}
    ELSE IF k = "X-Custom-Field" THEN {"value"}
    ELSE {"text of " \o k}

ActionBodies == Bodies([k \in ActionKeys |-> ActionValues(k)])

\* typed records built directly, as a caller of the pub fields can
BaseEntry ==
    [entry_type |-> "Application", version |-> None, name |-> ("" :> "Foo Viewer"),
     generic_name |-> None, no_display |-> None, comment |-> None, icon |-> None,
     hidden |-> None, only_show_in |-> None, not_show_in |-> None,
     dbus_activatable |-> None, try_exec |-> None, exec |-> None, path |-> None,
     terminal |-> None, actions |-> None, mime_type |-> None, categories |-> None,
     implements |-> None, keywords |-> None, startup_notify |-> None,
     startup_wm_class |-> None, url |-> None, prefers_non_default_gpu |-> None,
     other |-> EmptyMap]

TypedNames == {("" :> "Foo Viewer"), ("" :> "Foo Viewer") @@ ("de" :> "Foo Betrachter"),
               ("de" :> "Foo Betrachter")}
TypedExtras == {EmptyMap, ("X-Custom-Field" :> "value")}
\* lists that keep the invariant of the data model: no element is empty
TypedOptLists ==
    {None} \cup {Some(l) : l \in {t \in TypedLists : \A n \in 1..Len(t) : t[n] # ""}
                                \cup {<<"image/x-foo">>, <<"a\"b">>}}
TypedOptBools == {None, Some(TRUE), Some(FALSE)}

TypedEntries ==
    {[BaseEntry EXCEPT !.name = n, !.categories = c, !.terminal = t, !.other = o,
                       !.exec = e] :
        n \in TypedNames, c \in TypedOptLists, t \in TypedOptBools, o \in TypedExtras,
        e \in {None, Some("fooview %F")}}

TypedActions ==
    {<<id, [name |-> n, icon |-> i, exec |-> e, other |-> o]>> :
        id \in {"Gallery", "Create"}, n \in TypedNames,
        i \in {None, Some(("" :> "fooview-new"))},
        e \in {None, Some("fooview --gallery")},
        o \in {EmptyMap, ("X-Custom-Field" :> "value")}}

(***************************************************************************)
(* The machine: one job per behaviour, its input drawn by Init.            *)
(***************************************************************************)
\* RMenuApp::new: empty input, nothing displayed, the marker on index 0
RMenuApp_new ==
    /\ input_text = ""
    /\ selected_index = 0
    /\ options = <<>>
    /\ searched_text = None

Init ==
    /\ res = None /\ res2 = None /\ res3 = None
    /\ RMenuApp_new
    /\ \/ pc = "list_text" /\ arg \in ListTexts
       \/ pc = "list_items" /\ arg \in TypedLists
       \/ pc = "bool_text" /\ arg \in BoolTexts
       \/ pc = "locale_map" /\ arg \in [prefix : Prefixes, map : LocaleMaps]
       \/ pc = "action_section" /\ arg \in [header : ActionHeaders, map : ActionBodies]
       \/ pc = "entry_section" /\ arg \in [header : {"Desktop Entry"}, map : EntryBodies]
       \/ pc = "typed_action" /\ arg \in TypedActions
       \/ pc = "typed_entry" /\ arg \in TypedEntries

\* the one key of a serialized section wrapper
section_name_of(wrapper) == CHOOSE k \in DOMAIN wrapper : TRUE

\* deserialize_desktop_entry on the body of a [Desktop Entry] section
BindEntry ==
    /\ pc = "entry_section"
    /\ res' = deserialize_desktop_entry(arg.map)
    /\ pc' = "entry_bound"
    /\ UNCHANGED <<arg, res2, res3, app_vars>>

\* serialize_desktop_entry of the bound record
SerializeEntry ==
    /\ pc = "entry_bound"
    /\ res.ok
    /\ res2' = serialize_desktop_entry(res.v)
    /\ pc' = "entry_serialized"
    /\ UNCHANGED <<arg, res, res3, app_vars>>

\* deserialize_desktop_entry on the serialized body
RebindEntry ==
    /\ pc = "entry_serialized"
    /\ res3' = deserialize_desktop_entry(res2[section_name_of(res2)])
    /\ pc' = "entry_rebound"
    /\ UNCHANGED <<arg, res, res2, app_vars>>

\* deserialize_desktop_action on the body of a [Desktop Action <ID>] section
BindAction ==
    /\ pc = "action_section"
    /\ res' = deserialize_desktop_action(arg.map)
    /\ pc' = "action_bound"
    /\ UNCHANGED <<arg, res2, res3, app_vars>>

\* serialize_desktop_action of the bound pair
SerializeAction ==
    /\ pc = "action_bound"
    /\ res.ok
    /\ res2' = serialize_desktop_action(res.v)
    /\ pc' = "action_serialized"
    /\ UNCHANGED <<arg, res, res3, app_vars>>

\* deserialize_desktop_action on the serialized body
RebindAction ==
    /\ pc = "action_serialized"
    /\ res3' = deserialize_desktop_action(res2[section_name_of(res2)])
    /\ pc' = "action_rebound"
    /\ UNCHANGED <<arg, res, res2, app_vars>>

\* serialize_desktop_entry of a typed record
SerializeTypedEntry ==
    /\ pc = "typed_entry"
    /\ res' = serialize_desktop_entry(arg)
    /\ pc' = "typed_entry_serialized"
    /\ UNCHANGED <<arg, res2, res3, app_vars>>

\* deserialize_desktop_entry on what serialize_desktop_entry wrote
ParseTypedEntry ==
    /\ pc = "typed_entry_serialized"
    /\ res2' = deserialize_desktop_entry(res[section_name_of(res)])
    /\ pc' = "typed_entry_parsed"
    /\ UNCHANGED <<arg, res, res3, app_vars>>

\* serialize_desktop_action of a typed pair
SerializeTypedAction ==
    /\ pc = "typed_action"
    /\ res' = serialize_desktop_action(arg)
    /\ pc' = "typed_action_serialized"
    /\ UNCHANGED <<arg, res2, res3, app_vars>>

\* deserialize_desktop_action on what serialize_desktop_action wrote
ParseTypedAction ==
    /\ pc = "typed_action_serialized"
    /\ res2' = deserialize_desktop_action(res[section_name_of(res)])
    /\ pc' = "typed_action_parsed"
    /\ UNCHANGED <<arg, res, res3, app_vars>>

\* SemicolonList::deserialize through deserialize_opt_semicolon_list
DecodeList ==
    /\ pc = "list_text"
    /\ res' = deserialize_opt_semicolon_list(Some(arg))
    /\ pc' = "list_decoded"
    /\ UNCHANGED <<arg, res2, res3, app_vars>>

\* SemicolonList::serialize of a typed list
EncodeList ==
    /\ pc = "list_items"
    /\ res' = SemicolonList_serialize(arg)
    /\ pc' = "list_encoded"
    /\ UNCHANGED <<arg, res2, res3, app_vars>>

\* the encoded text read back
DecodeEncodedList ==
    /\ pc = "list_encoded"
    /\ res2' = deserialize_opt_semicolon_list(Some(res))
    /\ pc' = "list_reread"
    /\ UNCHANGED <<arg, res, res3, app_vars>>

\* deserialize_opt_bool on a present key
DecodeBool ==
    /\ pc = "bool_text"
    /\ res' = deserialize_opt_bool(Some(arg))
    /\ pc' = "bool_decoded"
    /\ UNCHANGED <<arg, res2, res3, app_vars>>

\* bool::to_string of a decoded value
EncodeBool ==
    /\ pc = "bool_decoded"
    /\ res.ok
    /\ res2' = bool_to_string(res.v.v)
    /\ pc' = "bool_encoded"
    /\ UNCHANGED <<arg, res, res3, app_vars>>

\* the encoded boolean read back
DecodeEncodedBool ==
    /\ pc = "bool_encoded"
    /\ res3' = deserialize_opt_bool(Some(res2))
    /\ pc' = "bool_reread"
    /\ UNCHANGED <<arg, res, res2, app_vars>>

\* deserialize_localized(prefix, &mut map)
ExtractLocalized ==
    /\ pc = "locale_map"
    /\ res' = deserialize_localized(arg.prefix, arg.map)
    /\ pc' = "locale_extracted"
    /\ UNCHANGED <<arg, res2, res3, app_vars>>

\* a second deserialize_localized with the same prefix on the same map
ExtractLocalizedAgain ==
    /\ pc = "locale_extracted"
    /\ res2' = deserialize_localized(arg.prefix, res.map)
    /\ pc' = "locale_extracted_twice"
    /\ UNCHANGED <<arg, res, res3, app_vars>>

Next ==
    \/ DecodeList
    \/ EncodeList
    \/ DecodeEncodedList
    \/ DecodeBool
    \/ EncodeBool
    \/ DecodeEncodedBool
    \/ ExtractLocalized
    \/ ExtractLocalizedAgain
    \/ BindEntry
    \/ SerializeEntry
    \/ RebindEntry
    \/ BindAction
    \/ SerializeAction
    \/ RebindAction
    \/ SerializeTypedEntry
    \/ ParseTypedEntry
    \/ SerializeTypedAction
    \/ ParseTypedAction

Spec == Init /\ [][Next]_vars

(***************************************************************************)
(* List codec properties.                                                  *)
(***************************************************************************)
\* positions of text at which a maximal run of non-delimiter characters starts
RunStarts(text) ==
    {i \in 1..Len(text) :
        char_at(text, i) # ";" /\ (i = 1 \/ char_at(text, i - 1) = ";")}

\* last position of the run that starts at i
RunEnd(text, i) ==
    CHOOSE j \in i..Len(text) :
        /\ \A k \in i..j : char_at(text, k) # ";"
        /\ (j = Len(text) \/ char_at(text, j + 1) = ";")

\* the non-empty fragments of text between delimiters, in text order
NonEmptyFragments(text) ==
    LET starts == RunStarts(text)
        nth(n) == CHOOSE i \in starts : Cardinality({j \in starts : j < i}) = n - 1
    IN [n \in 1..Cardinality(starts) |-> SubSeq(text, nth(n), RunEnd(text, nth(n)))]

has_char(s, c) == \E i \in 1..Len(s) : char_at(s, i) = c

\* C5 as claimed: the empty list encodes to "", a non-empty list to its elements
\* joined by ';' followed by exactly one more ';', and a list of non-empty
\* ';'-free elements is read back unchanged.
C5_EncodeAlwaysAppends ==
    /\ pc = "list_encoded" =>
          /\ (arg = <<>> => res = "")
          /\ (arg # <<>> => res = join(arg, ";") \o ";")
          /\ (arg = <<"a", "b">> => res = "a;b;")
    /\ pc = "list_reread" =>
          ((\A n \in 1..Len(arg) : arg[n] # "" /\ ~has_char(arg[n], ";"))
              => res2 = Ok(Some(arg)))

\* C5 amended: the empty list encodes to ""; a non-empty list encodes to its
\* elements joined by ';', followed by one more ';' unless the joined text
\* already ends with ';'; encode(["a","b"]) = "a;b;"; and a list of non-empty
\* ';'-free elements is read back unchanged.
C5_Encode ==
    /\ pc = "list_encoded" =>
          /\ (arg = <<>> => res = "")
          /\ (arg # <<>> /\ ~ends_with(join(arg, ";"), ";") => res = join(arg, ";") \o ";")
          /\ (arg # <<>> /\ ends_with(join(arg, ";"), ";") => res = join(arg, ";"))
          /\ (arg = <<"a", "b">> => res = "a;b;")
    /\ pc = "list_reread" =>
          ((\A n \in 1..Len(arg) : arg[n] # "" /\ ~has_char(arg[n], ";"))
              => res2 = Ok(Some(arg)))

C5_Witness == pc = "list_reread" /\ arg = <<"a", "b">> /\ res = "a;b;" /\ res2.ok

(***************************************************************************)
(* Boolean codec properties.                                               *)
(***************************************************************************)
\* the error of the boolean decoder that reports the text t
InvalidBoolean(t) == custom("Invalid boolean string: " \o t)

\* C6: decode is true exactly for "true"/"1" and false exactly for
\* "false"/"0", letter case ignored; every other text fails with
\* InvalidBoolean carrying the given text; encode gives "true"/"false" and
\* decode(encode(b)) = b.
C6_BoolDecode ==
    /\ pc = "bool_decoded" =>
          /\ (res = Ok(Some(TRUE))) <=> (to_lowercase(arg) \in {"true", "1"})
          /\ (res = Ok(Some(FALSE))) <=> (to_lowercase(arg) \in {"false", "0"})
          /\ (to_lowercase(arg) \notin {"true", "1", "false", "0"}
                => res = Err(InvalidBoolean(arg)))
    /\ pc = "bool_encoded" => res2 = (IF res.v.v THEN "true" ELSE "false")
    /\ pc = "bool_reread" => res3 = res

(***************************************************************************)
(* Locale-key folder properties.                                           *)
(***************************************************************************)
\* the match rule of the specification: the prefix itself, or prefix[locale]
\* with a locale of at least one character
IsLocaleKey(key, prefix) ==
    \/ key = prefix
    \/ /\ starts_with(key, prefix \o "[") /\ ends_with(key, "]")
       /\ Len(key) > Len(prefix) + 2

LocaleOf(key, prefix) ==
    IF key = prefix THEN "" ELSE SubSeq(key, Len(prefix) + 2, Len(key) - 1)

Restrict(m, K) == [k \in K |-> m[k]]

\* C7: extract returns "no value" and leaves the map alone when no key
\* matches; otherwise the locale map holds one entry per matching key with
\* that key's value, the map keeps exactly the non-matching keys with their
\* values, a second extract returns "no value", and keys of another prefix
\* are never consumed.
C7_Extract ==
    /\ pc = "locale_extracted" =>
          LET matching == {k \in DOMAIN arg.map : IsLocaleKey(k, arg.prefix)} IN
          /\ (matching = {} => res.ret = None /\ res.map = arg.map)
          /\ (matching # {} =>
                /\ res.ret.some
                /\ Cardinality(DOMAIN res.ret.v) = Cardinality(matching)
                /\ \A k \in matching :
                      /\ LocaleOf(k, arg.prefix) \in DOMAIN res.ret.v
                      /\ res.ret.v[LocaleOf(k, arg.prefix)] = arg.map[k]
                /\ res.map = Restrict(arg.map, DOMAIN arg.map \ matching))
          /\ (arg.prefix = "Name" =>
                \A k \in {"GenericName", "GenericName[de]", "Icon"} \cap DOMAIN arg.map :
                    k \in DOMAIN res.map /\ res.map[k] = arg.map[k])
    /\ pc = "locale_extracted_twice" => res2.ret = None

\* C8: a key is consumed only when it is the prefix or prefix[locale] with a
\* non-empty locale; prefix[] stays in the map, and the "" entry of the
\* extracted locale map is always the value of the unsuffixed key.
C8_MatchRule ==
    pc = "locale_extracted" =>
        /\ \A k \in DOMAIN arg.map :
              (k \notin DOMAIN res.map) <=> IsLocaleKey(k, arg.prefix)
        /\ (arg.prefix \o "[]") \in DOMAIN arg.map
              => (arg.prefix \o "[]") \in DOMAIN res.map
        /\ (res.ret.some /\ "" \in DOMAIN res.ret.v)
              => /\ arg.prefix \in DOMAIN arg.map
                 /\ res.ret.v[""] = arg.map[arg.prefix]

(***************************************************************************)
(* Section properties.                                                     *)
(***************************************************************************)
contains(s, t) == \E i \in 1..(Len(s) - Len(t) + 1) : SubSeq(s, i, i + Len(t) - 1) = t

\* key is prefix, or has the shape prefix[...]
HasLocaleShape(key, prefix) ==
    key = prefix \/ (starts_with(key, prefix \o "[") /\ ends_with(key, "]"))

EntryPrefixes == {"Name", "GenericName", "Comment", "Icon", "Keywords"}
ActionPrefixes == {"Name", "Icon"}

\* keys of a body that the record type neither declares nor localizes
UnknownEntryKeys(map) ==
    {k \in DOMAIN map : k \notin TempEntryKeys /\ \A p \in EntryPrefixes : ~HasLocaleShape(k, p)}
\* (__action_id is the channel by which the binder is handed the section's ID)
UnknownActionKeys(map) ==
    {k \in DOMAIN map :
        k \notin {"Exec", "__action_id"} /\ \A p \in ActionPrefixes : ~HasLocaleShape(k, p)}

Decodable(t) == to_lowercase(t) \in {"true", "1", "false", "0"}
Undecodable(map) == {k \in BoolKeys \cap DOMAIN map : ~Decodable(map[k])}
NoNameKey(map) == \A k \in DOMAIN map : ~HasLocaleShape(k, "Name")

\* C1: every typed record that is serialized and parsed again comes back
\* equal field for field: an entry through serialize_desktop_entry and
\* deserialize_desktop_entry, an action with its ID through
\* serialize_desktop_action and deserialize_desktop_action.
C1_TypedRoundTrip ==
    /\ pc = "typed_entry_parsed" => res2 = Ok(arg)
    /\ pc = "typed_action_parsed" => res2 = Ok(arg)

\* C2: a [Desktop Entry] body with Type and Name (and decodable booleans)
\* and a [Desktop Action <ID>] body with Name both parse; the entry's name
\* map holds Name under "" and each Name[locale] under locale; serializing
\* emits every Name key with its text, the header "Desktop Action <ID>" and
\* the action's Exec text.
C2_ParseThenSerialize ==
    /\ (pc \in {"entry_bound", "entry_serialized"}
          /\ {"Type", "Name"} \subseteq DOMAIN arg.map /\ Undecodable(arg.map) = {})
       => /\ res.ok
          /\ "" \in DOMAIN res.v.name /\ res.v.name[""] = arg.map["Name"]
          /\ \A k \in DOMAIN arg.map :
                IsLocaleKey(k, "Name") =>
                    /\ LocaleOf(k, "Name") \in DOMAIN res.v.name
                    /\ res.v.name[LocaleOf(k, "Name")] = arg.map[k]
          /\ pc = "entry_serialized" =>
                \A k \in DOMAIN arg.map :
                    IsLocaleKey(k, "Name") =>
                        /\ k \in DOMAIN res2["Desktop Entry"]
                        /\ res2["Desktop Entry"][k] = arg.map[k]
    /\ (pc \in {"action_bound", "action_serialized"} /\ "Name" \in DOMAIN arg.map
          /\ ("__action_id" \in DOMAIN arg.map
                => arg.header = "Desktop Action " \o arg.map["__action_id"]))
       => /\ res.ok
          /\ pc = "action_serialized" =>
                /\ DOMAIN res2 = {arg.header}
                /\ "Exec" \in DOMAIN arg.map =>
                      /\ "Exec" \in DOMAIN res2[arg.header]
                      /\ res2[arg.header]["Exec"] = arg.map["Exec"]

\* C3: every key of an entry or action body that the record type neither
\* declares nor localizes is stored in the record's `other` map with exactly
\* its input text, and is emitted with exactly that text on serialization.
C3_UnknownKeysPreserved ==
    /\ (pc \in {"entry_bound", "entry_serialized"} /\ res.ok) =>
          \A k \in UnknownEntryKeys(arg.map) :
              /\ k \in DOMAIN res.v.other /\ res.v.other[k] = arg.map[k]
              /\ pc = "entry_serialized" =>
                    /\ k \in DOMAIN res2["Desktop Entry"]
                    /\ res2["Desktop Entry"][k] = arg.map[k]
    /\ (pc \in {"action_bound", "action_serialized"} /\ res.ok) =>
          \A k \in UnknownActionKeys(arg.map) :
              /\ k \in DOMAIN res.v[2].other /\ res.v[2].other[k] = arg.map[k]
              /\ pc = "action_serialized" =>
                    /\ k \in DOMAIN res2[section_name_of(res2)]
                    /\ res2[section_name_of(res2)][k] = arg.map[k]

C3_Witness ==
    /\ pc = "entry_serialized"
    /\ "X-Custom-Field" \in DOMAIN arg.map
    /\ res.v.other = ("X-Custom-Field" :> "value")
    /\ res2["Desktop Entry"]["X-Custom-Field"] = "value"

\* C9 as claimed: an entry body and an action body without any Name key both
\* fail with the missing-field error for "Name".
C9_SameMissingNameError ==
    (pc \in {"entry_bound", "action_bound"} /\ NoNameKey(arg.map))
        => res = Err(missing_field("Name"))

\* C9 amended: an entry body without any Name key fails with the
\* missing-field error for "Name"; an action body without any Name key fails
\* with the missing-field error for "Desktop Action <ID> → Name" when its ID
\* was supplied, and with the missing-action-ID error when it was not; no
\* record is produced in either case.
C9_MissingName ==
    /\ (pc = "entry_bound" /\ NoNameKey(arg.map)) => res = Err(missing_field("Name"))
    /\ (pc = "action_bound" /\ NoNameKey(arg.map)) =>
          IF "__action_id" \in DOMAIN arg.map
          THEN res = Err(missing_field("Desktop Action " \o arg.map["__action_id"] \o " → Name"))
          ELSE res = Err(custom("Missing action ID"))

C9_Witness ==
    /\ pc = "action_bound"
    /\ "__action_id" \in DOMAIN arg.map /\ "Exec" \in DOMAIN arg.map
    /\ NoNameKey(arg.map)
    /\ ~res.ok

\* the boolean field of an entry record that a key is bound to
BoolField(entry, key) ==
    CASE key = "NoDisplay" -> entry.no_display
      [] key = "Hidden" -> entry.hidden
      [] key = "DBusActivatable" -> entry.dbus_activatable
      [] key = "Terminal" -> entry.terminal
      [] key = "StartupNotify" -> entry.startup_notify
      [] key = "PrefersNonDefaultGPU" -> entry.prefers_non_default_gpu

ErrorText(e) == IF e.kind = "custom" THEN e.msg ELSE e.field

\* what C10 says of absent and of decodable boolean keys
BoolFieldsBound ==
    /\ res.ok =>
          \A k \in BoolKeys :
              BoolField(res.v, k) =
                  IF k \in DOMAIN arg.map
                  THEN Some(to_lowercase(arg.map[k]) \in {"true", "1"})
                  ELSE None
    /\ (~NoNameKey(arg.map) /\ "Type" \in DOMAIN arg.map /\ Undecodable(arg.map) = {})
          => res.ok
    /\ Undecodable(arg.map) # {} => ~res.ok

DeclaredField(entry, key) ==
    CASE key = "Version" -> entry.version
      [] key = "NoDisplay" -> entry.no_display
      [] key = "Hidden" -> entry.hidden
      [] key = "OnlyShowIn" -> entry.only_show_in
      [] key = "NotShowIn" -> entry.not_show_in
      [] key = "DBusActivatable" -> entry.dbus_activatable
      [] key = "TryExec" -> entry.try_exec
      [] key = "Exec" -> entry.exec
      [] key = "Path" -> entry.path
      [] key = "Terminal" -> entry.terminal
      [] key = "Actions" -> entry.actions
      [] key = "MimeType" -> entry.mime_type
      [] key = "Categories" -> entry.categories
      [] key = "Implements" -> entry.implements
      [] key = "StartupNotify" -> entry.startup_notify
      [] key = "StartupWMClass" -> entry.startup_wm_class
      [] key = "URL" -> entry.url
      [] key = "PrefersNonDefaultGPU" -> entry.prefers_non_default_gpu

\* the optional localizable field of an entry record that a prefix is folded into
LocalizedField(entry, prefix) ==
    CASE prefix = "GenericName" -> entry.generic_name
      [] prefix = "Comment" -> entry.comment
      [] prefix = "Icon" -> entry.icon
      [] prefix = "Keywords" -> entry.keywords

\* every declared key that the body lacks is "no value" in the record
AbsentFieldsEmpty(entry, map) ==
    /\ \A k \in TempEntryKeys \ {"Type"} :
          k \notin DOMAIN map => DeclaredField(entry, k) = None
    /\ \A p \in EntryPrefixes \ {"Name"} :
          (\A k \in DOMAIN map : ~HasLocaleShape(k, p)) => LocalizedField(entry, p) = None

\* C11 as claimed: Name is the only mandatory key of an entry section: a
\* body with a Name key whose present boolean keys are all decodable binds
\* successfully whichever other declared keys (Type included) are absent,
\* and every absent field is "no value".
C11_OnlyNameMandatory ==
    pc = "entry_bound" =>
        ((~NoNameKey(arg.map) /\ Undecodable(arg.map) = {})
            => (res.ok /\ AbsentFieldsEmpty(res.v, arg.map)))

\* C11 amended: Name and Type are the only mandatory keys of an entry
\* section: a body with a Name key and a Type key whose present boolean
\* keys are all decodable binds successfully whichever other declared keys
\* are absent, every absent field being "no value" and never a default; a
\* body with a Name key and no Type key never binds.
C11_NameAndTypeMandatory ==
    pc = "entry_bound" =>
        /\ (~NoNameKey(arg.map) /\ "Type" \in DOMAIN arg.map /\ Undecodable(arg.map) = {})
              => (res.ok /\ AbsentFieldsEmpty(res.v, arg.map) /\ res.v.entry_type = arg.map["Type"])
        /\ (~NoNameKey(arg.map) /\ "Type" \notin DOMAIN arg.map) => ~res.ok

C11_Witness ==
    /\ pc = "entry_bound"
    /\ DOMAIN arg.map = {"Name", "Type"}
    /\ res.ok
    /\ res.v.exec = None /\ res.v.mime_type = None /\ res.v.terminal = None

(***************************************************************************)
(* Sections and the file: the value a self-describing reader presents for  *)
(* one section is a map whose values are texts (`flat`, the key=value      *)
(* lines of an INI section) or maps of texts (`nested`).                   *)
(***************************************************************************)
\* most sections in one explored file
MaxSections == 2

flat_content(body) == [flat |-> body, nested |-> EmptyMap]
nested_content(field, body) == [flat |-> EmptyMap, nested |-> insert(EmptyMap, field, body)]

UntaggedMismatch == custom("data did not match any variant of untagged enum Section")

\* the first variant of Section that deserialized, given the outcome of each
\* attempt: Entry, then Action, then Other, which flattens the whole content
\* into a map of texts
first_variant(entry, action, content) ==
    IF entry.ok THEN Ok([variant |-> "Entry", desktop_entry |-> entry.v])
    ELSE IF action.ok THEN Ok([variant |-> "Action", action |-> action.v])
    ELSE IF DOMAIN content.nested = {} THEN Ok([variant |-> "Other", raw |-> content.flat])
    ELSE Err(UntaggedMismatch)

\* Section::deserialize: #[serde(untagged)] buffers the content and tries the
\* variants in declaration order, the first that deserializes wins.  Entry is
\* a struct with the one field "Desktop Entry", read by
\* deserialize_desktop_entry from a map of texts; Action is a struct with the
\* one field "Desktop Action", read by deserialize_desktop_action.  The
\* section's name is the key of DesktopFile.sections and is not part of the
\* content.
Section_deserialize(content) ==
    first_variant(IF "Desktop Entry" \in DOMAIN content.nested
                  THEN deserialize_desktop_entry(content.nested["Desktop Entry"])
                  ELSE Err(missing_field("Desktop Entry")),
                  IF "Desktop Action" \in DOMAIN content.nested
                  THEN deserialize_desktop_action(content.nested["Desktop Action"])
                  ELSE Err(missing_field("Desktop Action")),
                  content)

\* BTreeMap<String, Section>::deserialize over the flattened entries of the
\* file, in the order read, each with the outcome of Section::deserialize on
\* its content: the first section that fails aborts, a repeated name replaces
\* the section stored under it
RECURSIVE deserialize_sections(_, _)
deserialize_sections(bound, sections) ==
    IF Len(bound) = 0 THEN Ok(sections)
    ELSE IF ~Head(bound).section.ok THEN Err(Head(bound).section.e)
    ELSE deserialize_sections(Tail(bound),
                              insert(sections, Head(bound).header, Head(bound).section.v))

\* the DesktopFile built around the sections, or their error
DesktopFile_of(sections) ==
    IF sections.ok THEN Ok([sections |-> sections.v]) ELSE Err(sections.e)

\* DesktopFile::deserialize
DesktopFile_deserialize(entries) ==
    DesktopFile_of(deserialize_sections(
        [i \in 1..Len(entries) |->
            [header |-> entries[i].header,
             section |-> Section_deserialize(entries[i].content)]],
        EmptyMap))

\* the explored section names and section bodies
FileHeaders == {"Desktop Entry", "Desktop Action Gallery", "X-KDE-SomeGroup"}
EntryBody == ("Type" :> "Application") @@ ("Name" :> "Foo Viewer")
NamelessBody == ("Type" :> "Application") @@ ("Terminal" :> "Yes")
ActionBody == ("__action_id" :> "Gallery") @@ ("Name" :> "Browse Gallery")
VendorBody == ("X-Custom-Field" :> "value")
FileBodies == {EntryBody, NamelessBody, ActionBody, VendorBody}
\* what an INI reader presents, and what a reader of a nested format can
FlatContents == {flat_content(b) : b \in FileBodies}
NestedContents ==
    {nested_content("Desktop Entry", b) : b \in {EntryBody, NamelessBody}}
    \cup {nested_content("Desktop Action", b) : b \in {ActionBody, NamelessBody}}
IniSections == [header : FileHeaders, content : FlatContents]
FileSections == [header : FileHeaders, content : FlatContents \cup NestedContents]
IniFiles == UNION {[1..n -> IniSections] : n \in 0..MaxSections}
Files == UNION {[1..n -> FileSections] : n \in 0..MaxSections}

InitFile ==
    /\ res = None /\ res2 = None /\ res3 = None
    /\ RMenuApp_new
    /\ \/ pc = "section" /\ arg \in [header : FileHeaders, content : FlatContents]
       \/ pc = "section" /\ arg \in [header : FileHeaders, content : NestedContents]
       \/ pc = "file" /\ arg \in IniFiles
       \/ /\ pc = "file" /\ arg \in Files
          /\ \E i \in 1..Len(arg) : arg[i].content \in NestedContents

\* Section::deserialize on the content read under one section name
BindSection ==
    /\ pc = "section"
    /\ res' = Section_deserialize(arg.content)
    /\ pc' = "section_bound"
    /\ UNCHANGED <<arg, res2, res3, app_vars>>

\* DesktopFile::deserialize on the sections of one file
ParseFile ==
    /\ pc = "file"
    /\ res' = DesktopFile_deserialize(arg)
    /\ pc' = "file_parsed"
    /\ UNCHANGED <<arg, res2, res3, app_vars>>

NextFile ==
    \/ BindSection
    \/ ParseFile

SpecFile == InitFile /\ [][NextFile]_vars

(***************************************************************************)
(* Section and file properties.                                            *)
(***************************************************************************)
IsActionHeader(header) == starts_with(header, "Desktop Action ")
ActionIdOf(header) == SubSeq(header, Len("Desktop Action ") + 1, Len(header))

\* what the header says a section is
ClassOf(header) ==
    IF header = "Desktop Entry" THEN "Entry"
    ELSE IF IsActionHeader(header) THEN "Action"
    ELSE "Other"

\* C12: the class of a bound section is decided by its header alone: Entry
\* iff the header is exactly "Desktop Entry", Action iff it starts with
\* "Desktop Action ", Other in every other case, whatever the body holds;
\* and an Other section holds exactly the raw key/value mapping read.
C12_ClassifiedByHeader ==
    (pc = "section_bound" /\ res.ok) =>
        /\ res.v.variant = ClassOf(arg.header)
        /\ res.v.variant = "Other" =>
              (arg.content.nested = EmptyMap /\ res.v.raw = arg.content.flat)

\* positions of a file at which a section with this header is read
SectionsHeaded(file, header) == {i \in 1..Len(file) : file[i].header = header}

\* names under which a parsed file holds a section of this class
SectionsOfClass(file, variant) ==
    {h \in DOMAIN file.sections : file.sections[h].variant = variant}

\* C13: a file in which two sections are both headed "Desktop Entry" fails
\* with DuplicateMainEntry and no file value is built from one of the two;
\* every file value returned holds at most one section that is the main
\* entry (its section names, being the keys of a map, are unique).
C13_DuplicateMainEntry ==
    pc = "file_parsed" =>
        /\ Cardinality(SectionsHeaded(arg, "Desktop Entry")) >= 2
              => (~res.ok /\ ErrorText(res.e) = "DuplicateMainEntry")
        /\ res.ok => Cardinality(SectionsOfClass(res.v, "Entry")) <= 1

\* the section read at position i of a file is an INI section whose header
\* asks for a record and whose body does not bind to it
FailsToBind(file, i) ==
    /\ file[i].content.nested = EmptyMap
    /\ \/ /\ file[i].header = "Desktop Entry"
          /\ ~deserialize_desktop_entry(file[i].content.flat).ok
       \/ /\ IsActionHeader(file[i].header)
          /\ ~deserialize_desktop_action(file[i].content.flat).ok

\* C14: whenever a section headed "Desktop Entry" or "Desktop Action <ID>"
\* fails to bind (no Name, an undecodable boolean, no action ID), parsing
\* the file returns an error and no file value, never a file value in which
\* that section is left out or kept as an Other section.
C14_AllOrNothing ==
    pc = "file_parsed" =>
        ((\E i \in 1..Len(arg) : FailsToBind(arg, i)) => ~res.ok)

(***************************************************************************)
(* Action identity.                                                        *)
(***************************************************************************)
\* C15: the ID carried with a bound action record is the remainder of the
\* section's header after "Desktop Action "; it is handed over beside the
\* body, being a key neither of the body nor of the record's `other`; and
\* the record is serialized under the header "Desktop Action " + ID, which
\* is the header it was read under.
C15_ActionIdentity ==
    /\ (pc = "action_bound" /\ res.ok) =>
          /\ res.v[1] = ActionIdOf(arg.header)
          /\ "__action_id" \notin DOMAIN arg.map
          /\ "__action_id" \notin DOMAIN res.v[2].other
    /\ pc = "action_serialized" =>
          /\ section_name_of(res2) = "Desktop Action " \o res.v[1]
          /\ section_name_of(res2) = arg.header

(***************************************************************************)
(* Order of the serialized keys of an entry.                               *)
(***************************************************************************)
\* the declared fields in the order serialize_desktop_entry goes through them
DeclaredOrder ==
    <<"Type", "Version", "Name", "GenericName", "NoDisplay", "Comment", "Icon", "Hidden",
      "OnlyShowIn", "NotShowIn", "DBusActivatable", "TryExec", "Exec", "Path", "Terminal",
      "Actions", "MimeType", "Categories", "Implements", "Keywords", "StartupNotify",
      "StartupWMClass", "URL", "PrefersNonDefaultGPU">>

\* the declared field a key is emitted for: the key itself, or the
\* prefix of a localizable field that the key has the shape of
IsKeyOf(key, field) ==
    key = field \/ (field \in EntryPrefixes /\ HasLocaleShape(key, field))

\* place of a key in the claimed order; the extra keys come after all fields
OrderRank(key) ==
    IF \E i \in 1..Len(DeclaredOrder) : IsKeyOf(key, DeclaredOrder[i])
    THEN CHOOSE i \in 1..Len(DeclaredOrder) : IsKeyOf(key, DeclaredOrder[i])
    ELSE Len(DeclaredOrder) + 1

InClaimedOrder(keys) ==
    /\ keys[1] = "Type"
    /\ \A i \in 1..Len(keys) : \A j \in 1..Len(keys) :
          i < j => OrderRank(keys[i]) <= OrderRank(keys[j])

\* C16: the key sequence emitted for an entry starts with Type, continues
\* with the present declared fields in the fixed declared order (each
\* localizable field as its prefix / prefix[locale] keys) and ends with the
\* extra keys; serializing the same record again yields the same sequence.
C16_DeclaredOrder ==
    /\ pc = "entry_serialized" =>
          /\ InClaimedOrder(emitted_keys(res2["Desktop Entry"]))
          /\ emitted_keys(serialize_desktop_entry(res.v)["Desktop Entry"])
                = emitted_keys(res2["Desktop Entry"])
    /\ pc = "typed_entry_serialized" =>
          /\ InClaimedOrder(emitted_keys(res["Desktop Entry"]))
          /\ emitted_keys(serialize_desktop_entry(arg)["Desktop Entry"])
                = emitted_keys(res["Desktop Entry"])

(***************************************************************************)
(* `other` and the typed fields.                                           *)
(***************************************************************************)
\* keys of a map that a record type declares or localizes
TypedEntryKeys(map) ==
    {k \in DOMAIN map : k \in TempEntryKeys \/ \E p \in EntryPrefixes : HasLocaleShape(k, p)}
TypedActionKeys(map) ==
    {k \in DOMAIN map : k = "Exec" \/ \E p \in ActionPrefixes : HasLocaleShape(k, p)}

\* the keys and texts serialize_desktop_action writes for the typed fields
action_declared_keys(action) ==
    insert_opt(insert_opt_localized(
                   insert_localized(EmptyMap, "Name", action.name, sorted(DOMAIN action.name)),
                   "Icon", action.icon),
               "Exec", action.exec)

\* every typed key is emitted with the text of its own typed field
TypedValuesEmitted(emitted, declared) ==
    \A k \in DOMAIN declared : k \in DOMAIN emitted /\ emitted[k] = declared[k]

\* C17: after every successful parse of an entry or action section the
\* record's `other` holds no declared key (entry: Type, Version, the boolean,
\* list and free-text keys; action: Exec) and no key of the shape of one of
\* the record's localizable prefixes; so when the record is serialized every
\* present typed field is emitted with its own typed value, no key of
\* `other` overwriting it.
C17_OtherDisjoint ==
    /\ (pc \in {"entry_bound", "entry_serialized"} /\ res.ok) =>
          TypedEntryKeys(res.v.other) = {}
    /\ pc = "entry_serialized" =>
          TypedValuesEmitted(res2["Desktop Entry"], entry_declared_keys(res.v))
    /\ (pc \in {"action_bound", "action_serialized"} /\ res.ok) =>
          TypedActionKeys(res.v[2].other) = {}
    /\ pc = "action_serialized" =>
          TypedValuesEmitted(res2[section_name_of(res2)], action_declared_keys(res.v[2]))

C17_Witness ==
    /\ pc = "entry_serialized"
    /\ DOMAIN arg.map = {"Type", "Name", "X-Custom-Field"}
    /\ DOMAIN res.v.other = {"X-Custom-Field"}
    /\ res2["Desktop Entry"]["Type"] = "Application"
    /\ res2["Desktop Entry"]["Name"] = "Foo Viewer"

(***************************************************************************)
(* The menu front end: RMenuApp.  Each action is one frame of update() in  *)
(* which the user did one thing.                                           *)
(***************************************************************************)
\* longest input text typed
MaxInputLen == 2

InputAlphabet == {"o", "P", "1", "3"}
AllOptions == <<"Option 1", "Option 2", "Option 3">>

RECURSIVE filter_options(_, _)
filter_options(opts, text) ==
    IF Len(opts) = 0 THEN <<>>
    ELSE IF contains(to_lowercase(Head(opts)), to_lowercase(text))
         THEN <<Head(opts)>> \o filter_options(Tail(opts), text)
         ELSE filter_options(Tail(opts), text)

\* update_options: the three placeholder options, filtered by the input text
update_options(text) == filter_options(AllOptions, text)

InitApp ==
    /\ pc = "menu" /\ arg = None
    /\ res = None /\ res2 = None /\ res3 = None
    /\ RMenuApp_new

\* the TextEdit receives a character
TypeChar ==
    /\ pc = "menu"
    /\ Len(input_text) < MaxInputLen
    /\ \E c \in InputAlphabet : input_text' = input_text \o c
    /\ UNCHANGED <<pc, arg, res, res2, res3, selected_index, options, searched_text>>

\* the TextEdit receives a backspace
DeleteChar ==
    /\ pc = "menu"
    /\ input_text # ""
    /\ input_text' = SubSeq(input_text, 1, Len(input_text) - 1)
    /\ UNCHANGED <<pc, arg, res, res2, res3, selected_index, options, searched_text>>

\* the Search button is clicked
ClickSearch ==
    /\ pc = "menu"
    /\ options' = update_options(input_text)
    /\ searched_text' = Some(input_text)
    /\ UNCHANGED <<pc, arg, res, res2, res3, input_text, selected_index>>

\* the button of the option displayed at index i is clicked
ClickOption ==
    /\ pc = "menu"
    /\ \E i \in 0..(Len(options) - 1) : selected_index' = i
    /\ UNCHANGED <<pc, arg, res, res2, res3, input_text, options, searched_text>>

NextApp ==
    \/ TypeChar
    \/ DeleteChar
    \/ ClickSearch
    \/ ClickOption

SpecApp == InitApp /\ [][NextApp]_vars

\* C18: after any sequence of text edits, Search clicks and option clicks,
\* whenever the displayed options list is non-empty selected_index is
\* smaller than its length, so the marker is on a displayed option; and every
\* displayed option contains, letter case aside, the input text as it was at
\* the last Search click.
C18_SelectionDisplayed ==
    pc = "menu" =>
        /\ options # <<>> => selected_index < Len(options)
        /\ \A i \in 1..Len(options) :
              /\ searched_text.some
              /\ contains(to_lowercase(options[i]), to_lowercase(searched_text.v))

====
